---- MODULE Spec2Model ----
(***************************************************************************)
(* A model of seaslug (src/seaslug.py): one table of a Database, its rows, *)
(* its ordered indices, its table file, and the public operations          *)
(* connect / Row() / column set / destroy / save / where.                  *)
(*                                                                         *)
(* One process declares the table with one of two schemas:                 *)
(*   A:  n = IntColumn(), s = StrColumn(2),   indices = [(n,), (s, n)]      *)
(*   B:  n = IntColumn(), p = PickleColumn(5, int), indices = [(n,)]        *)
(* A process that connects to a directory written under the other schema   *)
(* takes the migration path (import_data).                                 *)
(* A third declaration is used by a process of its own:                    *)
(*   F:  n = ForeignColumn('T'), s = StrColumn(2)   (T is the table itself) *)
(*       t = Through('n', 's'), r = Belongs('T', 'n')                      *)
(*   G:  n = ForeignColumn('T'), s = StrColumn(3)   (an older F)            *)
(* and a fourth one, with a column kept in sidecar files, by another:      *)
(*   S:  n = IntColumn(), b = StrBlobColumn()                              *)
(* The earlier module of the same table (src/database.py) is modelled by  *)
(* the operators and actions named database_..., under SpecDatabase.      *)
(*                                                                         *)
(* A row object is a record                                                *)
(*   id, n      the ctypes fields __id.value, __n.value                    *)
(*   len, data  the ctypes struct of the bytes column (length, data[N])    *)
(*   val        the cached python value _s / _p                            *)
(*   off, dirty, new   the attributes _offset, __dirty, _new               *)
(* Row objects are named by handles 1..Len(obj) (object identity); rows is *)
(* cls.rows, a list of handles.                                            *)
(***************************************************************************)
EXTENDS Integers, Sequences, FiniteSets, TLC

VARIABLES
  disk,        \* the table file: NoFile or [schema, recs]
  sidecar,     \* the directory <Table>_<blobcol>: set of [off, bytes]
  sessions,    \* number of processes started so far
  decl,        \* schema declared by the running process
  connected,   \* db.path is bound (connect was called)
  migrated,    \* connect of this process went through import_data
  rows,        \* cls.rows: list of handles
  obj,         \* row objects, by handle
  indices,     \* cls.indices: list of [keys, list]
  max_id,      \* cls.max_id
  full_dump_needed,
  op,          \* the last public operation
  err,         \* how it ended: "ok" or the exception raised
  created,     \* history: <<handle, id>> of each Row() called by the user
  touched,     \* history: rows created, set or relocated since connect/save
  synced,      \* history: a connect without migration or a save has returned
  edits,       \* history: number of edits since the last connect or save
  assigned,    \* history: the ids of the rows that a save has written
  q,           \* the last query: [preds, result]; the last call on a row:
               \* [row, value], with the table before a call on a kept handle
  tables,      \* db.tables: the table classes registered, in order
  calls,       \* history: the calls the last connect made on table classes
  stale,       \* the other tables whose file was written under another schema
  held         \* the destroyed rows whose handle the caller kept: handle -> object

vars == <<disk, sidecar, sessions, decl, connected, migrated, rows, obj, indices,
          max_id, full_dump_needed, op, err, created, touched, synced,
          edits, assigned, q, tables, calls, stale, held>>

----------------------------------------------------------------------------
(* Bounds *)

MaxSessions == 2     \* processes started
MaxId == 2           \* Row() is not called by the user once max_id reaches it
MaxRows == 2         \* the user keeps at most this many rows in the table
MaxEdits == 2        \* the user saves after at most this many edits
MaxPreds == 2        \* comparisons in one call of where

----------------------------------------------------------------------------
(* Values *)

NoFile == [schema |-> "none", recs |-> <<>>]

Str(cps) == [t |-> "str", v |-> cps]
PInt(i) == [t |-> "int", v |-> <<i>>]
PNone == [t |-> "none", v |-> <<>>]
RowRef(h) == [t |-> "row", v |-> <<h>>]

RECURSIVE Zeros(_)
Zeros(k) == IF k = 0 THEN <<>> ELSE <<0>> \o Zeros(k - 1)

\* A python int is written as a numeral <<hi, lo>> in base 65536, so that
\* values beyond 32 bits can be assigned.
PyInt(i) == <<i \div 65536, i % 65536>>

\* ctypes c_int: a python int stored in a 32-bit signed field keeps its low
\* 32 bits, read as two's complement
c_int(v) ==
  LET hi == v[1] % 65536
  IN (IF hi >= 32768 THEN hi - 65536 ELSE hi) * 65536 + v[2]

\* str.encode(): UTF-8 of a sequence of code points (below U+0800)
RECURSIVE encode(_)
encode(cps) ==
  IF cps = <<>> THEN <<>>
  ELSE LET c == Head(cps)
       IN (IF c < 128 THEN <<c>>
           ELSE <<192 + (c \div 64), 128 + (c % 64)>>) \o encode(Tail(cps))

\* bytes.decode(): the inverse parse
RECURSIVE decode(_)
decode(bs) ==
  IF bs = <<>> THEN <<>>
  ELSE IF Head(bs) < 128 THEN <<Head(bs)>> \o decode(Tail(bs))
  ELSE <<(Head(bs) - 192) * 64 + (bs[2] - 128)>> \o decode(Tail(Tail(bs)))

\* pickle.dumps(value, 4) of a small int: PROTO 4, BININT1/BININT2, STOP;
\* a payload of four bytes or more is wrapped in a FRAME
pickle_dumps(value) ==
  LET i == value.v[1]
  IN IF i < 256 THEN <<128, 4, 75, i, 46>>
     ELSE <<128, 4, 149, 4, 0, 0, 0, 0, 0, 0, 0, 77, i % 256, i \div 256, 46>>

pickle_loads(body) ==
  IF body[3] = 75 THEN PInt(body[4])
  ELSE PInt(body[12] + 256 * body[13])

----------------------------------------------------------------------------
(* Declarations *)

Schemas == {"A", "B"}

\* cls.columns, id first
Columns(schema) ==
  CASE schema = "A" ->
         << [name |-> "id", kind |-> "Int", length |-> 0],
            [name |-> "n", kind |-> "Int", length |-> 0],
            [name |-> "s", kind |-> "Str", length |-> 2] >>
    [] schema = "B" ->
         << [name |-> "id", kind |-> "Int", length |-> 0],
            [name |-> "n", kind |-> "Int", length |-> 0],
            [name |-> "p", kind |-> "Pickle", length |-> 5] >>
    [] schema = "F" ->
         << [name |-> "id", kind |-> "Int", length |-> 0],
            [name |-> "n", kind |-> "Foreign", length |-> 0],
            [name |-> "s", kind |-> "Str", length |-> 2] >>
    [] schema = "G" ->
         << [name |-> "id", kind |-> "Int", length |-> 0],
            [name |-> "n", kind |-> "Foreign", length |-> 0],
            [name |-> "s", kind |-> "Str", length |-> 3] >>
    [] schema = "S" ->
         << [name |-> "id", kind |-> "Int", length |-> 0],
            [name |-> "n", kind |-> "Int", length |-> 0],
            [name |-> "b", kind |-> "StrBlob", length |-> 0] >>
    [] schema = "H" ->
         << [name |-> "id", kind |-> "Int", length |-> 0],
            [name |-> "n", kind |-> "Foreign", length |-> 0],
            [name |-> "s", kind |-> "Str", length |-> 2] >>
    [] schema = "E" ->
         << [name |-> "id", kind |-> "Int", length |-> 0],
            [name |-> "t", kind |-> "Int", length |-> 0],
            [name |-> "s", kind |-> "Str", length |-> 2] >>

\* cls.vcolumns: the virtual columns declared
VColumns(schema) ==
  IF schema = "F"
  THEN << [name |-> "t", kind |-> "Through", length |-> 0],
          [name |-> "r", kind |-> "Belongs", length |-> 0] >>
  ELSE <<>>

ColumnNames(schema) == {Columns(schema)[i].name : i \in 1..Len(Columns(schema))}

\* the bytes column of a schema
Payload(schema) == Columns(schema)[3]

\* the indices attribute of the declared table
UserIndices(schema) ==
  CASE schema = "A" -> << <<"n">>, <<"s", "n">> >>
    [] schema = "B" -> << <<"n">> >>
    [] schema = "F" -> <<>>
    [] schema = "G" -> <<>>
    [] schema = "S" -> <<>>
    [] schema = "H" -> << <<"n">> >>
    [] schema = "E" -> << <<"s", "t">> >>

\* the columns whose attribute on a row is read by ForeignColumn.get
Remote(schema) ==
  {Columns(schema)[i].name : i \in {j \in 1..Len(Columns(schema)) :
                                     Columns(schema)[j].kind = "Foreign"}}

\* the characters of the names that occur as keys
Chars(name) ==
  CASE name = "id" -> <<"i", "d">>
    [] name = "n" -> <<"n">>
    [] name = "s" -> <<"s">>
    [] name = "t" -> <<"t">>
    [] name = "p" -> <<"p">>
    [] name = "_offset" -> <<"_", "o", "f", "f", "s", "e", "t">>
    [] name = "_dirty" -> <<"_", "d", "i", "r", "t", "y">>

KeyNames == {"id", "n", "s", "t", "p", "_offset", "_dirty"}

\* python's  a in b  for two strings
StrIn(a, b) ==
  \E i \in 0..(Len(Chars(b)) - Len(Chars(a))) :
    SubSeq(Chars(b), i + 1, i + Len(Chars(a))) = Chars(a)

\* the names  key  for which  key in text  holds, text a string
StrKeys(text) == {k \in KeyNames : StrIn(k, text)}

----------------------------------------------------------------------------
(* Ordering of index keys.  A key is a tuple of components; a component is *)
(* a sequence of integers: <<i>> for an int, <<0>>/<<1>> for a bool, the   *)
(* code points for a str.                                                  *)

RECURSIVE SeqLess(_, _)
SeqLess(a, b) ==
  IF b = <<>> THEN FALSE
  ELSE IF a = <<>> THEN TRUE
  ELSE IF Head(a) < Head(b) THEN TRUE
  ELSE IF Head(a) > Head(b) THEN FALSE
  ELSE SeqLess(Tail(a), Tail(b))

RECURSIVE KeyLess(_, _)
KeyLess(k1, k2) ==
  IF k2 = <<>> THEN FALSE
  ELSE IF k1 = <<>> THEN TRUE
  ELSE IF SeqLess(Head(k1), Head(k2)) THEN TRUE
  ELSE IF SeqLess(Head(k2), Head(k1)) THEN FALSE
  ELSE KeyLess(Tail(k1), Tail(k2))

\* the entries of a SortedDict in key order
RECURSIVE Sorted(_)
Sorted(S) ==
  IF S = {} THEN <<>>
  ELSE LET m == CHOOSE e \in S : \A f \in S : f = e \/ KeyLess(e.k, f.k)
       IN <<m>> \o Sorted(S \ {m})

----------------------------------------------------------------------------
(* Index *)

\* the field of the row record that holds the column: the second column of
\* a table is kept in n, also when it is declared under the name t
Field(name) == IF name = "t" THEN "n" ELSE name

None == [none |-> TRUE, k |-> <<>>]
At(key) == [none |-> FALSE, k |-> key]

\* one component of a key: what attrgetter reads from the row
KeyVal(o, key) ==
  CASE key = "id" -> <<o.id>>
    [] key \in {"n", "t"} -> <<o.n>>
    [] key = "_offset" -> <<o.off>>
    [] key = "_dirty" -> <<IF o.dirty THEN 1 ELSE 0>>
    [] OTHER -> o.val.v

keyer(keys, o) == [i \in 1..Len(keys) |-> KeyVal(o, keys[i])]

Index(keys) == [keys |-> keys, list |-> {}]

\* self.list[key] = object
IndexAdd(ix, o, h) ==
  LET key == keyer(ix.keys, o)
  IN [ix EXCEPT !.list = {e \in @ : e.k # key} \cup {[k |-> key, h |-> h]}]

IndexHas(ix, o) == \E e \in ix.list : e.k = keyer(ix.keys, o)

\* del self.list[key], for a key that is present
IndexRemove(ix, o) ==
  [ix EXCEPT !.list = {e \in @ : e.k # keyer(ix.keys, o)}]

RECURSIVE Reverse(_)
Reverse(s) == IF s = <<>> THEN <<>> ELSE Reverse(Tail(s)) \o <<Head(s)>>

\* Index.find that ignores start: the whole index
find_ignoring_start(ix, start, reverse) ==
  IF reverse THEN Reverse(Sorted(ix.list)) ELSE Sorted(ix.list)

\* Index.find yielding the entries from the other end
find_backwards(ix, start, reverse) ==
  LET keep(e) == \/ start.none
                 \/ IF reverse THEN ~KeyLess(start.k, e.k)
                               ELSE ~KeyLess(e.k, start.k)
      es == SelectSeq(Sorted(ix.list), keep)
  IN IF reverse THEN es ELSE Reverse(es)

\* Index.find: the entries from start on in key order, or from start back
find(ix, start, reverse) ==
  LET keep(e) == \/ start.none
                 \/ IF reverse THEN ~KeyLess(start.k, e.k)
                               ELSE ~KeyLess(e.k, start.k)
      es == SelectSeq(Sorted(ix.list), keep)
  IN IF reverse THEN Reverse(es) ELSE es

\* Index.reindex: a new dict, every value added again in the old key order
RECURSIVE AddEach(_, _, _)
AddEach(ix, es, objs) ==
  IF es = <<>> THEN ix
  ELSE AddEach(IndexAdd(ix, objs[Head(es).h], Head(es).h), Tail(es), objs)

Index_reindex(ix, objs) == AddEach(Index(ix.keys), Sorted(ix.list), objs)

----------------------------------------------------------------------------
(* Table: a record t = [rows, obj, indices, max_id, full_dump_needed, err]. *)
(* An operation is a function of t; once err is set the rest of the call   *)
(* is skipped, so t is the state the exception leaves behind.              *)

\* the class right after __init_subclass__
Declared(user) ==
  [rows |-> <<>>, obj |-> <<>>,
   indices |-> << Index(<<"id">>), Index(<<"_offset", "id">>),
                  Index(<<"_dirty", "id">>) >> \o
               [i \in 1..Len(user) |-> Index(user[i] \o <<"id">>)],
   max_id |-> 0, full_dump_needed |-> FALSE, err |-> "ok", files |-> {},
   remote |-> {}]

NewTable(schema) ==
  [Declared(UserIndices(schema)) EXCEPT !.remote = Remote(schema)]

Raise(t, e) == [t EXCEPT !.err = e]

\* v bound to a value once: F(v)
With(v, F(_)) == F(v)

\* the rest of a call, skipped when an exception is on its way up
Ok(t, F(_)) == IF t.err # "ok" THEN t ELSE F(t)

RECURSIVE Strength(_, _, _)
Strength(ks, keys, cmpkeys) ==
  IF ks = <<>> THEN 0
  ELSE IF Head(ks) \in keys THEN 1 + Strength(Tail(ks), keys, cmpkeys)
  ELSE IF Head(ks) \in cmpkeys THEN 1
  ELSE 0

\* Table.find_index keeping the later of two indices of equal strength
find_index_last(ixs, keys, cmpkeys) ==
  LET st(i) == Strength(ixs[i].keys, keys, cmpkeys)
  IN CHOOSE i \in 1..Len(ixs) :
       /\ \A j \in 1..Len(ixs) : st(j) <= st(i)
       /\ \A j \in (i + 1)..Len(ixs) : st(j) < st(i)

\* Table.find_index: the position of the first index of greatest strength
find_index(ixs, keys, cmpkeys) ==
  LET st(i) == Strength(ixs[i].keys, keys, cmpkeys)
  IN CHOOSE i \in 1..Len(ixs) :
       /\ \A j \in 1..Len(ixs) : st(j) <= st(i)
       /\ \A j \in 1..(i - 1) : st(j) < st(i)

\* Table.max('_offset', default)
Table_max(t, key, default) ==
  With(find(t.indices[find_index(t.indices, StrKeys(key), {})], None, TRUE),
       LAMBDA es : IF es = <<>> THEN default ELSE t.obj[es[1].h].off)

RECURSIVE ForeignColumn_get(_, _, _)

\* the row as the keyer of the index at position i reads it: a key that is
\* a Foreign column is read through ForeignColumn.get and is the row found
\* or None.  Rows compare and hash by id and None is below every row, so
\* the component is the id of the row found, and 0 for None.
Seen(t, i, h) ==
  IF \E j \in 1..Len(t.indices[i].keys) : t.indices[i].keys[j] \in t.remote
  THEN With(ForeignColumn_get(t, h, [name |-> "n"]), LAMBDA r :
         [t.obj[h] EXCEPT !.n = IF r = PNone THEN 0 ELSE t.obj[r.v[1]].id])
  ELSE t.obj[h]

\* index.remove(row) / index.add(row) on the index at position i
Remove(t, i, h) ==
  IF t.err # "ok" THEN t
  ELSE IF ~IndexHas(t.indices[i], Seen(t, i, h)) THEN Raise(t, "KeyError")
  ELSE [t EXCEPT !.indices[i] = IndexRemove(@, Seen(t, i, h))]

Add(t, i, h) ==
  IF t.err # "ok" THEN t
  ELSE [t EXCEPT !.indices[i] = IndexAdd(@, Seen(t, i, h), h)]

RECURSIVE RemoveAll(_, _, _)
RemoveAll(t, is, h) ==
  IF is = <<>> THEN t ELSE RemoveAll(Remove(t, Head(is), h), Tail(is), h)

RECURSIVE AddAll(_, _, _)
AddAll(t, is, h) ==
  IF is = <<>> THEN t ELSE AddAll(Add(t, Head(is), h), Tail(is), h)

AllIndices(t) == [i \in 1..Len(t.indices) |-> i]

\* [index for index in row.table.indices if self.name in index.keys]
IndicesOn(t, name) ==
  LET has(i) == \E j \in 1..Len(t.indices[i].keys) : t.indices[i].keys[j] = name
  IN SelectSeq(AllIndices(t), has)

\* the _dirty property setter
SetDirty(t, h, value) ==
  IF t.err # "ok" \/ value = t.obj[h].dirty THEN t
  ELSE With(find_index(t.indices, StrKeys("_dirty"), {}), LAMBDA di :
         Ok(Remove(t, di, h), LAMBDA t1 :
           Add([t1 EXCEPT !.obj[h].dirty = value], di, h)))

\* BlobColumn.load: the bytes of the file <row._offset>.dat; no file and an
\* empty file both end as the default of the column
BlobColumn_load(t, o) ==
  IF \E f \in t.files : f.off = o.off
  THEN (CHOOSE f \in t.files : f.off = o.off).bytes
  ELSE <<>>

\* Column.load of a payload column: AbstractStrColumn.load,
\* AbstractPickleColumn.load
ColumnLoad(t, col, o) ==
  LET body == IF col.kind = "StrBlob" THEN BlobColumn_load(t, o)
              ELSE SubSeq(o.data, 1, o.len)
  IN IF col.kind \in {"Str", "StrBlob"}
     THEN [o EXCEPT !.val = Str(decode(body))]
     ELSE [o EXCEPT !.val = IF body = <<>> THEN PNone ELSE pickle_loads(body)]

\* Row.__init__ without  cls.max_id += 1
RowInit_same_id(t, schema) ==
  With([id |-> c_int(PyInt(t.max_id + 1)), n |-> 0, len |-> 0,
        data |-> Zeros(Payload(schema).length), val |-> PNone,
        off |-> Table_max(t, "_offset", -1) + 1, dirty |-> TRUE, new |-> TRUE],
       LAMBDA o :
         With([t EXCEPT !.rows = Append(@, Len(t.obj) + 1),
                        !.obj = Append(@, ColumnLoad(t, Payload(schema), o))],
              LAMBDA t1 : AddAll(t1, AllIndices(t1), Len(t1.obj))))

\* Row.__init__
RowInit(t, schema) ==
  With([id |-> c_int(PyInt(t.max_id + 1)), n |-> 0, len |-> 0,
        data |-> Zeros(Payload(schema).length), val |-> PNone,
        off |-> Table_max(t, "_offset", -1) + 1, dirty |-> TRUE, new |-> TRUE],
       LAMBDA o :
         With([t EXCEPT !.max_id = @ + 1, !.rows = Append(@, Len(t.obj) + 1),
                        !.obj = Append(@, ColumnLoad(t, Payload(schema), o))],
              LAMBDA t1 : AddAll(t1, AllIndices(t1), Len(t1.obj))))

\* StructColumn.set
StructColumn_set(t, h, name, value) ==
  With(IndicesOn(t, name), LAMBDA is :
    Ok(RemoveAll(t, is, h), LAMBDA t1 :
      AddAll([t1 EXCEPT !.obj[h][Field(name)] = c_int(value)], is, h)))

\* BytesColumn.store_bytes
store_bytes(t, h, col, bytes) ==
  IF t.err # "ok" THEN t
  ELSE IF Len(bytes) > col.length THEN Raise(t, "ValueError")
  ELSE [t EXCEPT !.obj[h].len = Len(bytes),
                 !.obj[h].data = bytes \o SubSeq(@, Len(bytes) + 1, col.length)]

\* Column.set
Column_set(t, h, name, value) ==
  With(IndicesOn(t, name), LAMBDA is :
    Ok(RemoveAll(t, is, h), LAMBDA t1 :
      AddAll([t1 EXCEPT !.obj[h].val = value], is, h)))

\* AbstractStrColumn.set
StrColumn_set(t, h, col, value) ==
  Column_set(store_bytes(t, h, col, encode(value.v)), h, col.name, value)

\* BlobColumn.store_bytes: the file <row._offset>.dat is written anew
BlobColumn_store_bytes(t, h, bytes) ==
  [t EXCEPT !.files = {f \in @ : f.off # t.obj[h].off}
                      \cup {[off |-> t.obj[h].off, bytes |-> bytes]}]

\* AbstractStrColumn.set of a StrBlobColumn
StrBlobColumn_set(t, h, col, value) ==
  Column_set(BlobColumn_store_bytes(t, h, encode(value.v)), h, col.name, value)

\* AbstractPickleColumn.set
PickleColumn_set(t, h, col, value) ==
  IF value.t # "int" THEN Raise(t, "ValueError")
  ELSE Column_set(store_bytes(t, h, col, pickle_dumps(value)), h, col.name, value)

\* ForeignColumn.set
ForeignColumn_set(t, h, col, value) ==
  StructColumn_set(t, h, col.name,
                   IF value = PNone THEN PyInt(0)
                   ELSE PyInt(t.obj[value.v[1]].id))

\* VColumn.set returning without an exception
VColumn_set_silent(t, h, col, value) == t

\* VColumn.set, which Through and Belongs inherit
VColumn_set(t, h, col, value) == Raise(t, "NotImplementedError")

\* the column's set method, by kind
set(t, h, col, value) ==
  CASE col.kind = "Int" -> StructColumn_set(t, h, col.name, value)
    [] col.kind = "Str" -> StrColumn_set(t, h, col, value)
    [] col.kind = "Pickle" -> PickleColumn_set(t, h, col, value)
    [] col.kind = "Foreign" -> ForeignColumn_set(t, h, col, value)
    [] col.kind = "StrBlob" -> StrBlobColumn_set(t, h, col, value)
    [] col.kind \in {"Through", "Belongs"} -> VColumn_set(t, h, col, value)

\* VColumn.Property.__set__ marking the row before the column's set
Property_set_dirty_first(t, h, col, value) ==
  IF t.err # "ok" THEN t ELSE set(SetDirty(t, h, TRUE), h, col, value)

\* VColumn.Property.__set__
Property_set(t, h, col, value) ==
  IF t.err # "ok" THEN t ELSE SetDirty(set(t, h, col, value), h, TRUE)

\* src/database.py is the earlier module of the table: its Index, its _dirty
\* setter, Column.set, StructColumn.set, ForeignColumn.set, destroy, save
\* and connect on a new directory are the code modelled above; Row.__init__
\* loads no column, the bytes columns have one set method each, and
\* Property.__set__ is written the other way round.

\* Row.__init__ of database.py: no column is loaded, the row has no
\* attribute _s until a set (val is PNone)
database_RowInit(t, schema) ==
  With([id |-> c_int(PyInt(t.max_id + 1)), n |-> 0, len |-> 0,
        data |-> Zeros(Payload(schema).length), val |-> PNone,
        off |-> Table_max(t, "_offset", -1) + 1, dirty |-> TRUE, new |-> TRUE],
       LAMBDA o :
         With([t EXCEPT !.max_id = @ + 1, !.rows = Append(@, Len(t.obj) + 1),
                        !.obj = Append(@, o)],
              LAMBDA t1 : AddAll(t1, AllIndices(t1), Len(t1.obj))))

\* StrColumn.set of database.py: BytesColumn.set tests the length, writes
\* the struct and passes the bytes to Column.set; then _s is the string
database_StrColumn_set(t, h, col, value) ==
  Ok(Column_set(store_bytes(t, h, col, encode(value.v)), h, col.name,
                [t |-> "bytes", v |-> encode(value.v)]),
     LAMBDA t1 : [t1 EXCEPT !.obj[h].val = value])

\* VColumn.Property.__set__ of database.py, over the column's set method
database_Property_set(t, h, col, value) ==
  IF t.err # "ok" THEN t
  ELSE With(SetDirty(t, h, TRUE), LAMBDA t1 :
         CASE col.kind = "Int" -> StructColumn_set(t1, h, col.name, value)
           [] col.kind = "Str" -> database_StrColumn_set(t1, h, col, value)
           [] col.kind = "Foreign" -> ForeignColumn_set(t1, h, col, value)
           [] col.kind \in {"Through", "Belongs"} ->
                VColumn_set(t1, h, col, value))

\* list.remove(row): the first element equal to row, rows being equal when
\* their ids are
ListRemove(t, h) ==
  LET same(i) == t.obj[t.rows[i]].id = t.obj[h].id
  IN IF t.err # "ok" THEN t
     ELSE IF ~\E i \in 1..Len(t.rows) : same(i) THEN Raise(t, "NotInList")
     ELSE LET i == CHOOSE i \in 1..Len(t.rows) :
                     same(i) /\ \A j \in 1..(i - 1) : ~same(j)
          IN [t EXCEPT !.rows = SubSeq(@, 1, i - 1) \o SubSeq(@, i + 1, Len(@))]

\* the tail of Row.destroy: the row of highest _offset takes the freed slot
Relocate(t1, oi, es, off) ==
  IF es = <<>> \/ t1.obj[es[1].h].off <= off THEN t1
  ELSE With(es[1].h, LAMBDA mx :
         Ok(Remove(t1, oi, mx), LAMBDA t2 :
           Add(SetDirty([t2 EXCEPT !.obj[mx].off = off], mx, TRUE), oi, mx)))

\* Row.destroy
destroy(t, h) ==
  With(find_index(t.indices, StrKeys("_offset"), {}), LAMBDA oi :
    Ok(ListRemove(RemoveAll(t, AllIndices(t), h), h), LAMBDA t1 :
      Relocate(t1, oi, find(t1.indices[oi], None, TRUE), t.obj[h].off)))

----------------------------------------------------------------------------
(* Queries.  A comparison is [col, cmp, value, kw]: T.col <cmp> value      *)
(* passed positionally, or col=value passed by keyword (kw, cmp = "eq").   *)

Handles(es) == [i \in 1..Len(es) |-> es[i].h]

\* col.get(row)
Get(o, name) ==
  IF name \in {"id", "n", "t"} THEN PInt(o[Field(name)]) ELSE o.val

\* ColEq.match, ColGt.match, ColLt.match, ColGe.match, ColLe.match
match(c, o) ==
  LET a == Get(o, c.col)
  IN CASE c.cmp = "eq" -> a = c.value
       [] c.cmp = "gt" -> SeqLess(c.value.v, a.v)
       [] c.cmp = "lt" -> SeqLess(a.v, c.value.v)
       [] c.cmp = "ge" -> ~SeqLess(a.v, c.value.v)
       [] c.cmp = "le" -> ~SeqLess(c.value.v, a.v)

\* {i.col.name: i for i in cs}[name]: the last comparison on that column
Named(cs, name) ==
  cs[CHOOSE i \in 1..Len(cs) :
       cs[i].col = name /\ \A j \in (i + 1)..Len(cs) : cs[j].col # name]

Names(cs) == {cs[i].col : i \in 1..Len(cs)}

\* the loop of where over index.keys: [start, matches]
RECURSIVE Range(_, _, _)
Range(keys, eq, cmp) ==
  IF keys = <<>> THEN [start |-> <<>>, matches |-> <<>>]
  ELSE IF Head(keys) \in Names(eq)
  THEN LET comp == Named(eq, Head(keys))
           rest == Range(Tail(keys), eq, cmp)
       IN [start |-> <<comp.value.v>> \o rest.start,
           matches |-> <<comp>> \o rest.matches]
  ELSE IF Head(keys) \in Names(cmp)
  THEN LET comp == Named(cmp, Head(keys))
       IN IF comp.cmp \in {"lt", "le"}
          THEN [start |-> <<>>, matches |-> <<comp>>]
          ELSE [start |-> <<comp.value.v>>, matches |-> <<>>]
  ELSE [start |-> <<>>, matches |-> <<>>]

\* the final loop of where: stop at the first entry that fails a retained
\* test, yield the entries that pass every positional comparison
RECURSIVE Scan(_, _, _, _)
Scan(t, hs, matches, comparisons) ==
  IF hs = <<>> THEN <<>>
  ELSE LET o == t.obj[Head(hs)]
       IN IF \E i \in 1..Len(matches) : ~match(matches[i], o) THEN <<>>
          ELSE (IF \A i \in 1..Len(comparisons) : match(comparisons[i], o)
                THEN <<Head(hs)>> ELSE <<>>)
               \o Scan(t, Tail(hs), matches, comparisons)

\* the start key and the scan of where, once the index is chosen
Search(t, index, r, comparisons) ==
  Scan(t,
       Handles(find(index,
                    IF Len(index.keys) = 1
                    THEN (IF r.start # <<>> THEN At(<<r.start[1]>>) ELSE None)
                    ELSE At(r.start),
                    FALSE)),
       r.matches, comparisons)

\* the eq and cmp lists of where
Equalities(preds) ==
  LET positional(c) == ~c.kw /\ c.cmp = "eq"
      keyword(c) == c.kw
  IN SelectSeq(preds, positional) \o SelectSeq(preds, keyword)

Ranges(preds) ==
  LET other(c) == ~c.kw /\ c.cmp # "eq"
  IN SelectSeq(preds, other)

Positional(preds) ==
  LET positional(c) == ~c.kw
  IN SelectSeq(preds, positional)

\* Table.where: the handles yielded, in order
where(t, preds) ==
  With(t.indices[find_index(t.indices, Names(Equalities(preds)),
                            Names(Ranges(preds)))],
       LAMBDA index :
         Search(t, index,
                Range(index.keys, Equalities(preds), Ranges(preds)),
                Positional(preds)))

\* Table.find: the first row that where yields, or None
Table_find(t, preds) ==
  With(where(t, preds),
       LAMBDA hs : IF hs = <<>> THEN PNone ELSE RowRef(hs[1]))

\* ForeignColumn.get: self._table.find(self._table.id == id)
ForeignColumn_get(t, h, col) ==
  Table_find(t, << [col |-> "id", cmp |-> "eq",
                    value |-> PInt(t.obj[h][col.name]), kw |-> FALSE] >>)

----------------------------------------------------------------------------
(* The table file.  A record is the ctypes image of a row. *)

Record(o) == [id |-> o.id, n |-> o.n, len |-> o.len, data |-> o.data]

\* the bytes of a hole: seek past the end, or truncate to a larger size
ZeroRecord(schema) ==
  [id |-> 0, n |-> 0, len |-> 0, data |-> Zeros(Payload(schema).length)]

RECURSIVE Pad(_, _, _)
Pad(recs, size, schema) ==
  IF Len(recs) >= size THEN recs
  ELSE Pad(Append(recs, ZeroRecord(schema)), size, schema)

\* file.seek(row._offset * size + header_offset); file.write(row)
WriteAt(recs, offset, rec, schema) ==
  [Pad(recs, offset + 1, schema) EXCEPT ![offset + 1] = rec]

\* file.truncate(size) that never shortens the file
Truncate_grow_only(recs, size, schema) ==
  IF size <= Len(recs) THEN recs ELSE Pad(recs, size, schema)

\* file.truncate(size)
Truncate(recs, size, schema) ==
  IF size <= Len(recs) THEN SubSeq(recs, 1, size) ELSE Pad(recs, size, schema)

\* one turn of the loop of Table.load: the record at slot offset
LoadRow(t, schema, rec, offset) ==
  With(RowInit(t, schema), LAMBDA t1 :
    With(Len(t1.obj), LAMBDA h :
      With([t1 EXCEPT !.obj[h] =
              ColumnLoad(t1, Payload(schema),
                [@ EXCEPT !.id = rec.id, !.n = rec.n, !.len = rec.len,
                          !.data = rec.data, !.off = offset])],
           LAMBDA t2 :
             Ok(SetDirty(AddAll(t2, AllIndices(t2), h), h, FALSE),
                LAMBDA t3 : [t3 EXCEPT !.obj[h].new = FALSE]))))

RECURSIVE LoadRows(_, _, _, _)
LoadRows(t, schema, recs, offset) ==
  IF recs = <<>> \/ t.err # "ok" THEN t
  ELSE LoadRows(LoadRow(t, schema, Head(recs), offset), schema, Tail(recs),
                offset + 1)

\* max((i.id for i in cls.rows), default=0)
MaxRowId(t) ==
  IF t.rows = <<>> THEN 0
  ELSE LET ids == {t.obj[t.rows[i]].id : i \in 1..Len(t.rows)}
       IN CHOOSE m \in ids : \A x \in ids : x <= m

\* getattr(row, column.name)
Attr(o, name) ==
  IF name \in {"id", "n", "t"} THEN PyInt(o[Field(name)]) ELSE o.val

\* getattr(row, column.name) for a row of Copy: its ForeignColumn looks the
\* stored id up in the table registered under the name, the one being loaded
CopyAttr(t, col, row) ==
  IF col.kind = "Foreign"
  THEN Table_find(t, << [col |-> "id", cmp |-> "eq",
                         value |-> PInt(row[col.name]), kw |-> FALSE] >>)
  ELSE Attr(row, col.name)

\* the inner loop of import_data: the columns of one new row
RECURSIVE CopyColumns(_, _, _, _, _)
CopyColumns(t, h, cols, theirs, row) ==
  IF cols = <<>> \/ t.err # "ok" THEN t
  ELSE With(Head(cols), LAMBDA col :
         With(Ok(IF col.name \in theirs
                 THEN Property_set(t, h, col, CopyAttr(t, col, row))
                 ELSE t,
                 LAMBDA t1 : IF col.kind = "Int" THEN t1
                             ELSE [t1 EXCEPT !.obj[h] = ColumnLoad(t1, col, @)]),
              LAMBDA t2 : CopyColumns(t2, h, Tail(cols), theirs, row)))

RECURSIVE CopyRows(_, _, _, _)
CopyRows(t, schema, theirs, copyrows) ==
  IF copyrows = <<>> \/ t.err # "ok" THEN t
  ELSE With(RowInit(t, schema), LAMBDA t1 :
         With(Ok(CopyColumns(t1, Len(t1.obj), Columns(schema), theirs,
                             Head(copyrows)),
                 LAMBDA t2 : [t2 EXCEPT !.obj[Len(t1.obj)].new = FALSE]),
              LAMBDA t3 : CopyRows(t3, schema, theirs, Tail(copyrows))))

\* Table.load when the stored schema is the declared one: the records in
\* file order, then max_id
read_rows(t, schema, file) ==
  Ok(LoadRows(t, schema, file.recs, 0),
     LAMBDA t1 : [t1 EXCEPT !.max_id = MaxRowId(t1)])

\* Table.import_data without  their_columns.add('id')
import_data_no_id(t, schema, file) ==
  With(read_rows(Declared(<<>>), file.schema, file), LAMBDA copy :
    IF copy.err # "ok" THEN Raise(t, copy.err)
    ELSE Ok(CopyRows(t, schema, ColumnNames(file.schema) \ {"id"},
                     [i \in 1..Len(copy.rows) |-> copy.obj[copy.rows[i]]]),
            LAMBDA t1 : [t1 EXCEPT !.full_dump_needed = TRUE]))

\* Table.import_data; Copy is declared with the stored schema, so that
\* Copy.load reads the records directly
import_data(t, schema, file) ==
  With(read_rows(Declared(<<>>), file.schema, file), LAMBDA copy :
    IF copy.err # "ok" THEN Raise(t, copy.err)
    ELSE Ok(CopyRows(t, schema, ColumnNames(file.schema),
                     [i \in 1..Len(copy.rows) |-> copy.obj[copy.rows[i]]]),
            LAMBDA t1 : [t1 EXCEPT !.full_dump_needed = TRUE]))

\* Table.load
load(t, schema, file) ==
  IF file = NoFile THEN [t EXCEPT !.rows = <<>>]
  ELSE IF file.schema # schema THEN import_data(t, schema, file)
  ELSE read_rows(t, schema, file)

\* Table.reindex: the indices one after the other
RECURSIVE ReindexFrom(_, _)
ReindexFrom(t, i) ==
  IF i > Len(t.indices) THEN t
  ELSE ReindexFrom(
         [t EXCEPT !.indices[i] =
            Index_reindex(@, [h \in 1..Len(t.obj) |-> Seen(t, i, h)])],
         i + 1)

reindex(t) == ReindexFrom(t, 1)

\* Database.connect
connect(t, schema, file) == Ok(load(t, schema, file), reindex)

\* the loop of Table.save over the dirty rows; st = [t, recs]
RECURSIVE SaveDirty(_, _, _)
SaveDirty(st, hs, schema) ==
  IF hs = <<>> \/ st.t.err # "ok" THEN st
  ELSE SaveDirty(
         [t |-> Ok(SetDirty(st.t, Head(hs), FALSE),
                   LAMBDA t1 : [t1 EXCEPT !.obj[Head(hs)].new = FALSE]),
          recs |-> WriteAt(st.recs, st.t.obj[Head(hs)].off,
                           Record(st.t.obj[Head(hs)]), schema)],
         Tail(hs), schema)

\* the loop of Table.save_all over the rows in _offset order
RECURSIVE SaveOrdered(_, _)
SaveOrdered(st, hs) ==
  IF hs = <<>> \/ st.t.err # "ok" THEN st
  ELSE SaveOrdered([t |-> SetDirty(st.t, Head(hs), FALSE),
                    recs |-> Append(st.recs, Record(st.t.obj[Head(hs)]))],
                   Tail(hs))

\* Table.save_all; the result is [t, file]
save_all(t, schema) ==
  With(SaveOrdered([t |-> t, recs |-> <<>>],
         Handles(find(t.indices[find_index(t.indices, StrKeys("_offset"), {})],
                      None, FALSE))),
       LAMBDA st :
         [t |-> Ok(st.t, LAMBDA t1 : [t1 EXCEPT !.full_dump_needed = FALSE]),
          file |-> [schema |-> schema, recs |-> st.recs]])

\* Table.save; the result is [t, file]
save(t, schema, file) ==
  IF t.full_dump_needed \/ file = NoFile THEN save_all(t, schema)
  ELSE With(SaveDirty([t |-> t, recs |-> file.recs],
              Handles(find(t.indices[find_index(t.indices, StrKeys("_dirty"), {})],
                           At(<< <<1>> >>), FALSE)),
              schema),
            LAMBDA st :
              [t |-> st.t,
               file |-> [file EXCEPT !.recs =
                           IF st.t.err # "ok" THEN st.recs
                           ELSE Truncate(st.recs,
                                         Table_max(st.t, "_offset", -1) + 1,
                                         schema)]])

----------------------------------------------------------------------------
(* db.tables.  A table class is [name, copy]: copy marks the class that    *)
(* import_data makes under the name of the table it migrates.              *)

Class(name) == [name |-> name, copy |-> FALSE]

\* type(cls.__name__, cls.__bases__, d)
Copy(cls) == [cls EXCEPT !.copy = TRUE]

\* __init_subclass__: cls.db.tables.append(cls)
Register(reg, cls) == Append(reg, cls)

\* list.remove(cls): the first element equal to cls goes
Unregister(reg, cls) ==
  IF ~\E i \in 1..Len(reg) : reg[i] = cls THEN reg
  ELSE With(CHOOSE i \in 1..Len(reg) :
              reg[i] = cls /\ \A j \in 1..(i - 1) : reg[j] # cls,
            LAMBDA i : SubSeq(reg, 1, i - 1) \o SubSeq(reg, i + 1, Len(reg)))

\* import_data that leaves the class it makes in db.tables
import_data_tables_keep(reg, cls) == Register(reg, Copy(cls))

\* what import_data does to db.tables: the class it makes registers itself
\* and is removed again
import_data_tables(reg, cls) ==
  Unregister(Register(reg, Copy(cls)), Copy(cls))

\* the first loop of Database.connect, over the list as it is at each turn;
\* st = [tables, calls, err], changed the names of the tables whose file has
\* another schema, failing those whose load raises
RECURSIVE LoadEach(_, _, _, _)
LoadEach(st, i, changed, failing) ==
  IF i > Len(st.tables) \/ st.err THEN st
  ELSE With(st.tables[i], LAMBDA cls :
         LoadEach([tables |-> IF cls.name \in changed /\ ~cls.copy
                              THEN import_data_tables(st.tables, cls)
                              ELSE st.tables,
                   calls |-> Append(st.calls, <<"load", cls>>),
                   err |-> (cls.name \in failing /\ ~cls.copy)],
                  i + 1, changed, failing))

\* the second loop of Database.connect
RECURSIVE ReindexEach(_, _)
ReindexEach(st, i) ==
  IF i > Len(st.tables) \/ st.err THEN st
  ELSE ReindexEach([st EXCEPT !.calls = Append(@, <<"reindex", st.tables[i]>>)],
                   i + 1)

\* Database.connect on db.tables
connect_tables(reg, changed, failing) ==
  ReindexEach(LoadEach([tables |-> reg, calls |-> <<>>, err |-> FALSE],
                       1, changed, failing), 1)

----------------------------------------------------------------------------
(* The state machine *)

Tb == [rows |-> rows, obj |-> obj, indices |-> indices, max_id |-> max_id,
       full_dump_needed |-> full_dump_needed, err |-> "ok",
       files |-> sidecar, remote |-> Remote(decl)]

\* a row object that neither cls.rows nor an index refers to any more
Gone == [id |-> 0, n |-> 0, len |-> 0, data |-> <<>>, val |-> PNone,
         off |-> 0, dirty |-> FALSE, new |-> FALSE]

Referenced(t, h) ==
  \/ \E i \in 1..Len(t.rows) : t.rows[i] = h
  \/ \E i \in 1..Len(t.indices) : \E e \in t.indices[i].list : e.h = h

Becomes(t) ==
  /\ rows' = t.rows
  /\ obj' = [h \in 1..Len(t.obj) |->
               IF Referenced(t, h) THEN t.obj[h] ELSE Gone]
  /\ indices' = t.indices
  /\ max_id' = t.max_id
  /\ full_dump_needed' = t.full_dump_needed
  /\ err' = t.err
  /\ sidecar' = t.files

\* the tables of the directory that connect has to migrate
Changed ==
  stale \cup (IF disk # NoFile /\ disk.schema # decl THEN {"T"} ELSE {})

\* the names of the tables that Database.save reaches before the table name
SavedBefore(name) ==
  {tables[i].name : i \in {j \in 1..Len(tables) :
                              \A k \in 1..j : tables[k].name # name}}

\* an exception other than a validation error or the refusal of a virtual
\* column ends the use of the process
Usable == err \in {"ok", "ValueError", "NotImplementedError"}

Live == {rows[i] : i \in 1..Len(rows)}

\* what the user assigns to a column
IntInputs == {PyInt(1), <<65536, 0>>}
StrInputs == {Str(<<233>>), Str(<<97, 233>>)}
PickleInputs == {PInt(1), PInt(300), Str(<<97>>)}

\* the comparisons the user passes to where, at most MaxPreds at a time
Comparisons(schema) ==
  {[col |-> "n", cmp |-> k, value |-> PInt(1), kw |-> FALSE] :
     k \in {"eq", "lt", "gt", "le", "ge"}}
  \cup {[col |-> "id", cmp |-> k, value |-> PInt(2), kw |-> FALSE] :
          k \in {"lt", "ge"}}
  \cup {[col |-> "n", cmp |-> "eq", value |-> PInt(1), kw |-> TRUE]}
  \cup {[col |-> Payload(schema).name, cmp |-> "eq", kw |-> w,
         value |-> IF schema = "A" THEN Str(<<233>>) ELSE PInt(1)] :
          w \in BOOLEAN}

Queries(schema) ==
  UNION {[1..k -> Comparisons(schema)] : k \in 0..MaxPreds}

NoQuery == [preds |-> <<>>, result |-> <<>>]

Inputs(col) ==
  CASE col.kind = "Int" -> IntInputs
    [] col.kind = "Str" -> StrInputs
    [] col.kind = "Pickle" -> PickleInputs
    [] col.kind = "StrBlob" -> StrInputs

Init ==
  /\ disk = NoFile
  /\ sidecar = {}
  /\ sessions = 1
  /\ decl \in Schemas
  /\ connected = FALSE
  /\ migrated = FALSE
  /\ rows = <<>>
  /\ obj = <<>>
  /\ indices = NewTable(decl).indices
  /\ max_id = 0
  /\ full_dump_needed = FALSE
  /\ op = "start"
  /\ err = "ok"
  /\ created = <<>>
  /\ touched = {}
  /\ synced = FALSE
  /\ edits = 0
  /\ assigned = {disk.recs[i].id : i \in 1..Len(disk.recs)}
  /\ q = NoQuery
  /\ held = <<>>
  /\ tables = <<Class("T")>>
  /\ calls = <<>>
  /\ stale = {}

\* a new process declares the table
Start ==
  /\ sessions < MaxSessions
  /\ sessions' = sessions + 1
  /\ \E schema \in Schemas :
       /\ decl' = schema
       /\ Becomes([NewTable(schema) EXCEPT !.files = sidecar])
  /\ connected' = FALSE
  /\ migrated' = FALSE
  /\ op' = "start"
  /\ created' = <<>>
  /\ touched' = {}
  /\ synced' = FALSE
  /\ edits' = 0
  /\ q' = NoQuery
  /\ calls' = <<>>
  /\ held' = <<>>
  /\ UNCHANGED <<tables, stale,
                 assigned, disk>>

\* db.connect(path)
Connect ==
  /\ ~connected
  /\ \E t \in {connect(Tb, decl, disk)} :
       /\ Becomes(t)
       /\ \E r \in {connect_tables(tables, Changed,
                                   IF t.err # "ok" THEN {"T"} ELSE {})} :
            tables' = r.tables /\ calls' = r.calls
  /\ connected' = TRUE
  /\ migrated' = (disk # NoFile /\ disk.schema # decl)
  /\ op' = "connect"
  /\ touched' = {}
  /\ synced' = (err' = "ok" /\ ~migrated')
  /\ edits' = 0
  /\ q' = NoQuery
  /\ UNCHANGED <<held, stale,
                 assigned, disk, sessions, decl, created>>

\* Table.Row()
Create ==
  /\ connected /\ Usable /\ edits < MaxEdits
  /\ max_id < MaxId /\ Len(rows) < MaxRows
  /\ \E t \in {RowInit(Tb, decl)} :
       /\ Becomes(t)
       /\ created' = Append(created, <<Len(t.obj), t.obj[Len(t.obj)].id>>)
       /\ touched' = touched \cup {Len(t.obj)}
  /\ op' = "edit"
  /\ edits' = edits + 1
  /\ q' = NoQuery
  /\ UNCHANGED <<held, tables, calls, stale,
                 assigned, disk, sessions, decl, connected, migrated, synced>>

\* row.<column> = value, for a declared column
Set ==
  /\ connected /\ Usable /\ edits < MaxEdits
  /\ \E h \in Live : \E c \in 2..Len(Columns(decl)) :
       \E value \in Inputs(Columns(decl)[c]) :
         \E t \in {Property_set(Tb, h, Columns(decl)[c], value)} :
           /\ Becomes(t)
           /\ touched' = IF t.err = "ok" THEN touched \cup {h} ELSE touched
  /\ op' = "edit"
  /\ edits' = edits + 1
  /\ q' = NoQuery
  /\ UNCHANGED <<held, tables, calls, stale,
                 assigned, disk, sessions, decl, connected, migrated, created, synced>>

\* row.destroy()
Destroy ==
  /\ connected /\ Usable /\ edits < MaxEdits
  /\ \E h \in Live :
       \E t \in {destroy(Tb, h)} :
         /\ Becomes(t)
         /\ touched' = {x \in 1..Len(obj) :
                          /\ x \in touched \/ t.obj[x].off # obj[x].off
                          /\ \E i \in 1..Len(t.rows) : t.rows[i] = x}
         /\ q' = [row |-> h, value |-> PNone]
  /\ op' = "destroy"
  /\ edits' = edits + 1
  /\ UNCHANGED <<held, tables, calls, stale,
                 assigned, disk, sessions, decl, connected, migrated, created, synced>>

\* db.save()
Save ==
  /\ connected /\ Usable
  /\ \E r \in {save(Tb, decl, disk)} :
       /\ Becomes(r.t)
       /\ disk' = r.file
       /\ touched' = IF r.t.err = "ok" THEN {} ELSE touched
       /\ synced' = (synced \/ r.t.err = "ok")
       /\ assigned' = assigned \cup {r.file.recs[i].id : i \in 1..Len(r.file.recs)}
       /\ stale' = IF r.t.err = "ok" THEN {} ELSE stale \ SavedBefore("T")
  /\ op' = "save"
  /\ edits' = 0
  /\ q' = NoQuery
  /\ UNCHANGED <<held, tables, calls,
                 sessions, decl, connected, migrated, created>>

\* list(T.where(*comparisons, **kwargs))
Query ==
  /\ connected /\ Usable /\ op # "query"
  /\ \E preds \in Queries(decl) :
       q' = [preds |-> preds, result |-> where(Tb, preds)]
  /\ op' = "query"
  /\ err' = "ok"
  /\ UNCHANGED <<held, tables, calls, stale,
                 assigned, disk, sidecar, sessions, decl, connected, migrated, rows, obj,
                 indices, max_id, full_dump_needed, created, touched, synced,
                 edits>>

\* row.n = value for the ForeignColumn n: None or a live row of the table
Assign ==
  /\ connected /\ Usable /\ edits < MaxEdits
  /\ Columns(decl)[2].kind = "Foreign"
  /\ \E h \in Live : \E value \in {PNone} \cup {RowRef(p) : p \in Live} :
       \E t \in {Property_set(Tb, h, Columns(decl)[2], value)} :
         /\ Becomes(t)
         /\ touched' = IF t.err = "ok" THEN touched \cup {h} ELSE touched
         /\ q' = [row |-> h, value |-> value]
  /\ op' = "assign"
  /\ edits' = edits + 1
  /\ UNCHANGED <<held, tables, calls, stale,
                 assigned, disk, sessions, decl, connected, migrated, created, synced>>

\* row.<vcolumn> = value, for a declared virtual column
AssignVirtual ==
  /\ connected /\ Usable /\ edits < MaxEdits
  /\ \E h \in Live : \E c \in 1..Len(VColumns(decl)) :
       \E value \in {PNone} \cup {RowRef(p) : p \in Live} :
         \E t \in {Property_set(Tb, h, VColumns(decl)[c], value)} :
           /\ Becomes(t)
           /\ touched' = IF t.err = "ok" THEN touched \cup {h} ELSE touched
           /\ q' = [row |-> h, value |-> value]
  /\ op' = "vassign"
  /\ edits' = edits + 1
  /\ UNCHANGED <<held, tables, calls, stale,
                 assigned, disk, sessions, decl, connected, migrated, created, synced>>

\* Table.Row() of database.py
database_Create ==
  /\ connected /\ Usable /\ edits < MaxEdits
  /\ max_id < MaxId /\ Len(rows) < MaxRows
  /\ \E t \in {database_RowInit(Tb, decl)} :
       /\ Becomes(t)
       /\ created' = Append(created, <<Len(t.obj), t.obj[Len(t.obj)].id>>)
       /\ touched' = touched \cup {Len(t.obj)}
  /\ op' = "edit"
  /\ edits' = edits + 1
  /\ q' = NoQuery
  /\ UNCHANGED <<held, tables, calls, stale,
                 assigned, disk, sessions, decl, connected, migrated, synced>>

\* row.<column> = value of database.py: every column and every virtual
\* column of the table has a Property on the row class
database_Set ==
  /\ connected /\ Usable /\ edits < MaxEdits
  /\ \E h \in Live : \E c \in 2..(Len(Columns(decl)) + Len(VColumns(decl))) :
       \E col \in {(Columns(decl) \o VColumns(decl))[c]} :
         \E value \in IF col.kind = "Str" THEN StrInputs
                      ELSE {PNone} \cup {RowRef(p) : p \in Live} :
           \E t \in {database_Property_set(Tb, h, col, value)} :
             /\ Becomes(t)
             /\ touched' = touched \cup {h}
             /\ q' = [row |-> h, value |-> value]
  /\ op' = "assign"
  /\ edits' = edits + 1
  /\ UNCHANGED <<held, tables, calls, stale,
                 assigned, disk, sessions, decl, connected, migrated, created, synced>>

\* the table as a call on the kept handle h finds it: the object of h has
\* the fields it had when the table let go of it
Kept(h) ==
  [Tb EXCEPT !.obj[h] = IF Referenced(Tb, h) THEN @ ELSE held[h]]

\* history: the row list, the indices and the _offset of every live row as
\* a call on a kept handle finds them
Before ==
  [rows |-> rows, indices |-> indices, off |-> [h \in Live |-> obj[h].off]]

\* r.destroy() by a caller who keeps the handle r; r is a destroyed row once
\* the call has returned
DestroyKept ==
  /\ connected /\ Usable /\ edits < MaxEdits
  /\ \E h \in Live \ DOMAIN held :
       \E t \in {destroy(Tb, h)} :
         /\ Becomes(t)
         /\ touched' = {x \in 1..Len(obj) :
                          /\ x \in touched \/ t.obj[x].off # obj[x].off
                          /\ \E i \in 1..Len(t.rows) : t.rows[i] = x}
         /\ q' = [row |-> h, value |-> PNone]
         /\ held' = IF t.err = "ok" THEN (h :> t.obj[h]) @@ held ELSE held
  /\ op' = "destroy"
  /\ edits' = edits + 1
  /\ UNCHANGED <<tables, calls, stale,
                 assigned, disk, sessions, decl, connected, migrated, created, synced>>

\* r.<column> = value on a handle r kept after r.destroy()
SetGone ==
  /\ connected /\ Usable
  /\ \E h \in DOMAIN held : \E c \in 2..Len(Columns(decl)) :
       \E value \in Inputs(Columns(decl)[c]) :
         \E t \in {Property_set(Kept(h), h, Columns(decl)[c], value)} :
           /\ Becomes(t)
           /\ held' = [held EXCEPT ![h] = t.obj[h]]
           /\ q' = [row |-> h, value |-> value, before |-> Before]
  /\ op' = "set_gone"
  /\ UNCHANGED <<tables, calls, stale, edits, touched,
                 assigned, disk, sessions, decl, connected, migrated, created, synced>>

\* r.destroy() on a handle r kept after r.destroy()
DestroyGone ==
  /\ connected /\ Usable
  /\ \E h \in DOMAIN held :
       \E t \in {destroy(Kept(h), h)} :
         /\ Becomes(t)
         /\ held' = [held EXCEPT ![h] = t.obj[h]]
         /\ q' = [row |-> h, value |-> PNone, before |-> Before]
  /\ op' = "destroy_gone"
  /\ UNCHANGED <<tables, calls, stale, edits, touched,
                 assigned, disk, sessions, decl, connected, migrated, created, synced>>

\* id sequences of table files that creations, destroys and saves leave
\* behind: Row() thrice, destroy of the first and save gives 3,2; one more
\* Row() and save gives 3,2,4; Row() twice, destroy of the first, Row() and
\* save gives 2,3
StoredIds == {<<1>>, <<2>>, <<1, 2>>, <<2, 3>>, <<3, 2>>, <<3, 2, 4>>}

\* the file save writes for rows of these ids whose n was set to 1
StoredFile(schema, ids) ==
  [schema |-> schema,
   recs |-> [i \in 1..Len(ids) |->
               [id |-> ids[i], n |-> 1, len |-> 0,
                data |-> Zeros(Payload(schema).length)]]]

Next == Start \/ Connect \/ Create \/ Set \/ Destroy \/ Save

Spec == Init /\ [][Next]_vars

\* a new process with the declaration of the one before
Restart ==
  /\ sessions < MaxSessions
  /\ sessions' = sessions + 1
  /\ Becomes([NewTable(decl) EXCEPT !.files = sidecar])
  /\ connected' = FALSE
  /\ migrated' = FALSE
  /\ op' = "start"
  /\ created' = <<>>
  /\ touched' = {}
  /\ synced' = FALSE
  /\ edits' = 0
  /\ q' = NoQuery
  /\ calls' = <<>>
  /\ held' = <<>>
  /\ UNCHANGED <<tables, stale,
                 assigned, disk, decl>>

\* processes of one declaration that follow each other on a new directory
NextRestart == Connect \/ Create \/ Set \/ Destroy \/ Save \/ Restart

SpecRestart == Init /\ [][NextRestart]_vars

\* one process on a new directory, which edits and queries the table
NextQuery == Connect \/ Create \/ Set \/ Destroy \/ Query

SpecQuery == Init /\ [][NextQuery]_vars

\* one process that declares A on a new directory, edits, saves and queries
InitOrder == Init /\ decl = "A"

NextOrder == Connect \/ Create \/ Set \/ Destroy \/ Save \/ Query

SpecOrder == InitOrder /\ [][NextOrder]_vars

\* one process on a new directory whose caller keeps the handle of every
\* row it destroys, and goes on using it
NextHandle ==
  Connect \/ Create \/ Set \/ DestroyKept \/ SetGone \/ DestroyGone \/ Save

SpecHandle == Init /\ [][NextHandle]_vars

\* one process that declares F on a new directory or on a directory written
\* under G
InitForeign ==
  /\ disk \in {NoFile} \cup {StoredFile("G", ids) : ids \in StoredIds}
  /\ sidecar = {}
  /\ sessions = 1
  /\ decl = "F"
  /\ connected = FALSE
  /\ migrated = FALSE
  /\ rows = <<>>
  /\ obj = <<>>
  /\ indices = NewTable("F").indices
  /\ max_id = 0
  /\ full_dump_needed = FALSE
  /\ err = "ok"
  /\ op = "start"
  /\ created = <<>>
  /\ touched = {}
  /\ synced = FALSE
  /\ edits = 0
  /\ assigned = {disk.recs[i].id : i \in 1..Len(disk.recs)}
  /\ q = NoQuery
  /\ held = <<>>
  /\ tables = <<Class("T")>>
  /\ calls = <<>>
  /\ stale = {}

NextForeign ==
  Connect \/ Create \/ Assign \/ AssignVirtual \/ Destroy \/ Save

SpecForeign == InitForeign /\ [][NextForeign]_vars

\* one process that runs database.py and declares F on a new directory
InitDatabase ==
  /\ disk = NoFile
  /\ sidecar = {}
  /\ sessions = 1
  /\ decl = "F"
  /\ connected = FALSE
  /\ migrated = FALSE
  /\ rows = <<>>
  /\ obj = <<>>
  /\ indices = NewTable("F").indices
  /\ max_id = 0
  /\ full_dump_needed = FALSE
  /\ err = "ok"
  /\ op = "start"
  /\ created = <<>>
  /\ touched = {}
  /\ synced = FALSE
  /\ edits = 0
  /\ assigned = {}
  /\ q = NoQuery
  /\ held = <<>>
  /\ tables = <<Class("T")>>
  /\ calls = <<>>
  /\ stale = {}

NextDatabase ==
  Connect \/ database_Create \/ database_Set \/ Destroy \/ Save

SpecDatabase == InitDatabase /\ [][NextDatabase]_vars

\* processes that declare H, a table with an index over its Foreign column,
\* on a new directory
InitIndexed ==
  /\ disk = NoFile
  /\ sidecar = {}
  /\ sessions = 1
  /\ decl = "H"
  /\ connected = FALSE
  /\ migrated = FALSE
  /\ rows = <<>>
  /\ obj = <<>>
  /\ indices = NewTable("H").indices
  /\ max_id = 0
  /\ full_dump_needed = FALSE
  /\ err = "ok"
  /\ op = "start"
  /\ created = <<>>
  /\ touched = {}
  /\ synced = FALSE
  /\ edits = 0
  /\ assigned = {}
  /\ q = NoQuery
  /\ held = <<>>
  /\ tables = <<Class("T")>>
  /\ calls = <<>>
  /\ stale = {}

NextIndexed == Connect \/ Create \/ Assign \/ Destroy \/ Save \/ Restart

SpecIndexed == InitIndexed /\ [][NextIndexed]_vars

\* processes that declare E, a table whose index is over two columns with
\* names that occur in the text _offset, on a new directory
InitNamed ==
  /\ disk = NoFile
  /\ sidecar = {}
  /\ sessions = 1
  /\ decl = "E"
  /\ connected = FALSE
  /\ migrated = FALSE
  /\ rows = <<>>
  /\ obj = <<>>
  /\ indices = NewTable("E").indices
  /\ max_id = 0
  /\ full_dump_needed = FALSE
  /\ err = "ok"
  /\ op = "start"
  /\ created = <<>>
  /\ touched = {}
  /\ synced = FALSE
  /\ edits = 0
  /\ assigned = {}
  /\ q = NoQuery
  /\ held = <<>>
  /\ tables = <<Class("T")>>
  /\ calls = <<>>
  /\ stale = {}

NextNamed == Connect \/ Create \/ Set \/ Destroy \/ Save \/ Restart

SpecNamed == InitNamed /\ [][NextNamed]_vars

\* the orders in which a process declares the table T and up to two other
\* tables
Registries ==
  { <<Class("T")>>, <<Class("T"), Class("U")>>, <<Class("U"), Class("T")>>,
    <<Class("T"), Class("U"), Class("V")>>,
    <<Class("U"), Class("T"), Class("V")>>,
    <<Class("U"), Class("V"), Class("T")>> }

\* processes that declare several tables on a directory whose files were
\* written under the declared schemas or under other ones
InitRegistry ==
  /\ disk \in {NoFile} \cup {StoredFile(schema, ids) :
                                schema \in Schemas, ids \in StoredIds}
  /\ sidecar = {}
  /\ sessions = 1
  /\ decl \in Schemas
  /\ connected = FALSE
  /\ migrated = FALSE
  /\ rows = <<>>
  /\ obj = <<>>
  /\ indices = NewTable(decl).indices
  /\ max_id = 0
  /\ full_dump_needed = FALSE
  /\ err = "ok"
  /\ op = "start"
  /\ created = <<>>
  /\ touched = {}
  /\ synced = FALSE
  /\ edits = 0
  /\ assigned = {disk.recs[i].id : i \in 1..Len(disk.recs)}
  /\ q = NoQuery
  /\ held = <<>>
  /\ tables \in Registries
  /\ calls = <<>>
  /\ stale \in SUBSET ({tables[i].name : i \in 1..Len(tables)} \ {"T"})

NextRegistry == Connect \/ Create \/ Save \/ Restart

SpecRegistry == InitRegistry /\ [][NextRegistry]_vars

\* the tables declared, and the key names of a query of at most MaxPreds
\* comparisons
AllSchemas == {"A", "B", "F", "G", "S", "H", "E"}
KeySets == {K \in SUBSET KeyNames : Cardinality(K) <= MaxPreds}

\* a declared table of any of the schemas, not yet connected
InitFindIndex ==
  /\ disk = NoFile
  /\ sidecar = {}
  /\ sessions = 1
  /\ decl \in AllSchemas
  /\ connected = FALSE
  /\ migrated = FALSE
  /\ rows = <<>>
  /\ obj = <<>>
  /\ indices = NewTable(decl).indices
  /\ max_id = 0
  /\ full_dump_needed = FALSE
  /\ err = "ok"
  /\ op = "start"
  /\ created = <<>>
  /\ touched = {}
  /\ synced = FALSE
  /\ edits = 0
  /\ assigned = {}
  /\ q = NoQuery
  /\ held = <<>>
  /\ tables = <<Class("T")>>
  /\ calls = <<>>
  /\ stale = {}

\* T.find_index(keys, cmpkeys), once on the declared table
FindIndex ==
  /\ op = "start"
  /\ \E keys \in KeySets : \E cmpkeys \in KeySets :
       q' = [keys |-> keys, cmpkeys |-> cmpkeys,
             result |-> find_index(indices, keys, cmpkeys)]
  /\ op' = "find_index"
  /\ UNCHANGED <<held, tables, calls, stale,
                 disk, sidecar, sessions, decl, connected, migrated, rows,
                 obj, indices, max_id, full_dump_needed, err, created,
                 touched, synced, edits, assigned>>

NextFindIndex == FindIndex

SpecFindIndex == InitFindIndex /\ [][NextFindIndex]_vars

\* one process that declares S on a new directory
InitBlob ==
  /\ disk = NoFile
  /\ sidecar = {}
  /\ sessions = 1
  /\ decl = "S"
  /\ connected = FALSE
  /\ migrated = FALSE
  /\ rows = <<>>
  /\ obj = <<>>
  /\ indices = NewTable("S").indices
  /\ max_id = 0
  /\ full_dump_needed = FALSE
  /\ err = "ok"
  /\ op = "start"
  /\ created = <<>>
  /\ touched = {}
  /\ synced = FALSE
  /\ edits = 0
  /\ assigned = {disk.recs[i].id : i \in 1..Len(disk.recs)}
  /\ q = NoQuery
  /\ held = <<>>
  /\ tables = <<Class("T")>>
  /\ calls = <<>>
  /\ stale = {}

NextBlob == Connect \/ Create \/ Set \/ Destroy \/ Save

SpecBlob == InitBlob /\ [][NextBlob]_vars

\* one process whose declaration is not the one the file was written under
InitMigrate ==
  /\ \E schema \in Schemas : \E ids \in StoredIds :
       /\ disk = StoredFile(schema, ids)
       /\ decl \in Schemas \ {schema}
  /\ sidecar = {}
  /\ sessions = 1
  /\ connected = FALSE
  /\ migrated = FALSE
  /\ rows = <<>>
  /\ obj = <<>>
  /\ indices = NewTable(decl).indices
  /\ max_id = 0
  /\ full_dump_needed = FALSE
  /\ err = "ok"
  /\ op = "start"
  /\ created = <<>>
  /\ touched = {}
  /\ synced = FALSE
  /\ edits = 0
  /\ assigned = {disk.recs[i].id : i \in 1..Len(disk.recs)}
  /\ q = NoQuery
  /\ held = <<>>
  /\ tables = <<Class("T")>>
  /\ calls = <<>>
  /\ stale = {}

NextMigrate == Connect \/ Create \/ Set \/ Destroy \/ Save

SpecMigrate == InitMigrate /\ [][NextMigrate]_vars

\* a caller that keeps the handles of the rows it destroys, in a process
\* whose declaration is not the one the file was written under
SpecHandleMigrate == InitMigrate /\ [][NextHandle]_vars

\* the same, followed by further processes on the directory
SpecReload == InitMigrate /\ [][Next]_vars

----------------------------------------------------------------------------
(* Properties *)

\* the entries an index must hold: one per live row, under its current key
Expected(ix) == {[k |-> keyer(ix.keys, obj[h]), h |-> h] : h \in Live}

IndexExact(i) == indices[i].list = Expected(indices[i])

\* what a reader sees of a row
View(o) == [id |-> o.id, off |-> o.off, n |-> o.n, val |-> o.val]

Views(t) == {View(t.obj[t.rows[i]]) : i \in 1..Len(t.rows)}

\* the table a new process with the same declaration gets from the directory
Reopened == connect([NewTable(decl) EXCEPT !.files = sidecar], decl, disk)

\* the live rows that satisfy every comparison of a query
Satisfying(preds) ==
  {h \in Live : \A i \in 1..Len(preds) : match(preds[i], obj[h])}

\* C1: after connect and any creations, sets and destroys, the _offset
\* values of the live rows are pairwise distinct and are exactly 0..n-1,
\* n the number of live rows.
C1_OffsetDensity ==
  (connected /\ err = "ok") =>
    /\ \A i, j \in 1..Len(rows) : i # j => obj[rows[i]].off # obj[rows[j]].off
    /\ {obj[h].off : h \in Live} = 0..(Len(rows) - 1)

\* C2: within a session, after creations, successful sets and destroys,
\* every index (the default ones and the declared ones) holds exactly one
\* entry per live row, under the key of the row's current values, and no
\* entry of a destroyed row.
C2_IndexCoverage ==
  (connected /\ err = "ok") => \A i \in 1..Len(indices) : IndexExact(i)

\* C3: within a session every row the user creates gets an id that is at
\* least 1 and greater than the id of every row created before it, and the
\* id of a row does not change afterwards.
C3_IdsIncrease ==
  \A i \in 1..Len(created) :
    /\ created[i][2] >= 1
    /\ \A j \in 1..(i - 1) : created[j][2] < created[i][2]
    /\ created[i][1] \in Live => obj[created[i][1]].id = created[i][2]

\* two rows were created in the session and the first was destroyed since
C3_Witness ==
  /\ Len(created) = 2
  /\ created[1][1] \notin Live
  /\ created[2][1] \in Live

\* C4: where(P1..Pk) yields exactly the live rows that satisfy every Pi,
\* each of them once.
C4_QuerySound ==
  (op = "query") =>
    /\ {q.result[i] : i \in 1..Len(q.result)} = Satisfying(q.preds)
    /\ \A i, j \in 1..Len(q.result) : i # j => q.result[i] # q.result[j]

\* C5: for the table with inline columns (Int, String(N)), a save followed
\* by reopening the directory with the same declaration yields exactly the
\* rows that were live at the save, each with the same id, _offset and
\* column values.
C5_RoundTrip ==
  (decl = "A" /\ op = "save" /\ err = "ok") =>
    /\ Reopened.err = "ok"
    /\ Len(Reopened.rows) = Len(rows)
    /\ Views(Reopened) = Views(Tb)

C7_SaveClean ==
  (op = "save" /\ err = "ok") => \A h \in Live : ~obj[h].dirty

\* C8: after a connect without migration and after every save all rows
\* have _dirty = false, and from then on a row has _dirty = true exactly if
\* it was created, was the target of a successful set, or was relocated by
\* a destroy since.
C8_DirtyFidelity ==
  (synced /\ Usable) => \A h \in Live : obj[h].dirty <=> h \in touched

\* C9: a column set that fails validation raises and leaves the row as it
\* was: the record bytes, the cached value, _dirty and every index.
C9_FailedSetUnchanged ==
  [][err' = "ValueError" =>
       /\ rows' = rows /\ obj' = obj /\ indices' = indices
       /\ max_id' = max_id /\ full_dump_needed' = full_dump_needed
       /\ disk' = disk]_vars

\* a set has just failed validation on a table that holds a clean row
C9_Witness ==
  /\ op = "edit" /\ err = "ValueError"
  /\ \E h \in Live : ~obj[h].dirty

DefaultOnly(t) == [t EXCEPT !.indices = SubSeq(@, 1, 3)]

\* the set of rows a query yields on table t
Yielded(t, preds) == {where(t, preds)[i] : i \in 1..Len(where(t, preds))}

\* C11: a query yields the same set of rows on the table and on the table
\* that holds the same rows and declares fewer secondary indices.
C11_PlanIndependence ==
  (op = "query") => Yielded(Tb, q.preds) = Yielded(DefaultOnly(Tb), q.preds)

\* what row.n yields for the ForeignColumn n of the declared table
Referent(h) == ForeignColumn_get(Tb, h, Columns(decl)[2])

\* the live rows whose id is i
LiveWithId(i) == {x \in Live : obj[x].id = i}

\* C12: for a ForeignColumn, after set(None) the stored id is 0 and get
\* yields None; after set(p) for a live row p the stored id is p.id and get
\* yields the live row that has this id; a row whose stored id is the id of
\* no live row (its referent was destroyed) yields None.
C12_ForeignGet ==
  (connected /\ Usable /\ Columns(decl)[2].kind = "Foreign") =>
    /\ (op = "assign" /\ q.value = PNone) =>
          obj[q.row].n = 0 /\ Referent(q.row) = PNone
    /\ (op = "assign" /\ q.value # PNone) =>
          /\ obj[q.row].n = obj[q.value.v[1]].id
          /\ Referent(q.row) \in {RowRef(x) : x \in LiveWithId(obj[q.value.v[1]].id)}
    /\ \A h \in Live :
          IF LiveWithId(obj[h].n) = {}
          THEN Referent(h) = PNone
          ELSE Referent(h) \in {RowRef(x) : x \in LiveWithId(obj[h].n)}

\* C13: for the table with a sidecar blob column, a save followed by
\* reopening the directory yields, for every live row, the blob value the
\* row had before the save, also after destroys that moved a row.
C13_BlobRoundTrip ==
  (decl = "S" /\ op = "save" /\ err = "ok") =>
    /\ Reopened.err = "ok"
    /\ \A h \in Live :
          \E i \in 1..Len(Reopened.rows) :
            /\ Reopened.obj[Reopened.rows[i]].id = obj[h].id
            /\ Reopened.obj[Reopened.rows[i]].val = obj[h].val

\* C14: a save of a process whose connect migrated the table completes,
\* leaves the whole file written under the declared schema with one record
\* per row and full_dump_needed reset; reopening with the same declaration
\* then loads directly and yields the same rows.
C14_MigrateThenSave ==
  (op = "save" /\ migrated) =>
    /\ err = "ok"
    /\ disk.schema = decl
    /\ Len(disk.recs) = Len(rows)
    /\ ~full_dump_needed
    /\ Reopened.err = "ok"
    /\ Views(Reopened) = Views(Tb)

Selected(preds) ==
  indices[find_index(indices, Names(Equalities(preds)), Names(Ranges(preds)))]

\* the query has no comparison, or equalities on exactly the columns other
\* than id of a declared index
ById(preds) ==
  \/ preds = <<>>
  \/ /\ \A i \in 1..Len(preds) : preds[i].cmp = "eq"
     /\ \E i \in 4..Len(indices) :
          Names(preds) \cup {"id"} =
            {indices[i].keys[k] : k \in 1..Len(indices[i].keys)}

C17_DestroyFrame ==
  [][(op' = "destroy" /\ err' = "ok") =>
       LET h == q'.row
           others == Live \ {h}
           stays(x) == /\ \E i \in 1..Len(rows') : rows'[i] = x
                       /\ obj'[x] = obj[x]
       IN IF \E x \in others : obj[x].off > obj[h].off
          THEN \E m \in others :
                 /\ \A x \in others : obj[x].off <= obj[m].off
                 /\ \E i \in 1..Len(rows') : rows'[i] = m
                 /\ obj'[m] = [obj[m] EXCEPT !.off = obj[h].off, !.dirty = TRUE]
                 /\ \A x \in others \ {m} : stays(x)
          ELSE \A x \in others : stays(x)]_vars

\* C18: when connect has returned, max_id is at least the id of every live
\* row, after a direct load and after a migration.
C18_MaxIdCoversIds ==
  (op = "connect" /\ err = "ok") => \A h \in Live : obj[h].id <= max_id

\* C19: when a migrating connect has returned, every index holds exactly
\* one entry per migrated row, under the key of its copied id, whatever the
\* order of the stored ids; find(id = x) yields the migrated row of id x.
C19_MigratedIndices ==
  (op = "connect" /\ migrated /\ err = "ok") =>
    /\ \A i \in 1..Len(indices) : IndexExact(i)
    /\ \A h \in Live :
         Table_find(Tb, << [col |-> "id", cmp |-> "eq",
                            value |-> PInt(obj[h].id), kw |-> FALSE] >>)
           = RowRef(h)

\* C20: when connect has returned on a file of the declared schema, the
\* table holds one row per record, with the stored id and the file slot as
\* _offset, and every index holds exactly one entry per loaded row under
\* the key of these values, none under the provisional id or offset the
\* row had before its record was read.
C20_LoadedIndices ==
  (op = "connect" /\ ~migrated /\ disk # NoFile /\ err = "ok") =>
    /\ Len(rows) = Len(disk.recs)
    /\ \A k \in 1..Len(rows) :
         obj[rows[k]].id = disk.recs[k].id /\ obj[rows[k]].off = k - 1
    /\ \A i \in 1..Len(indices) : IndexExact(i)

\* C21: an id that was given to a row of the table is never given to
\* another row, over creations, destroys, saves and reopens: the id of a
\* new row is neither the id of a row that a save has written, nor of a
\* row created in this process, nor of a live row.
C21_IdsNeverReused ==
  [][Len(created') > Len(created) =>
       created'[Len(created')][2] \notin
         assigned \cup {created[i][2] : i \in 1..Len(created)}
                  \cup {obj[h].id : h \in Live}]_vars

\* C22: in a table with an index over a Foreign column, whenever an
\* operation has returned normally, the index holds every live row under
\* the key its keyer reads now (the row its Foreign column returns, then
\* its id), also after the destroy of a referenced row.
C22_ForeignIndexCurrent ==
  (decl = "H" /\ connected /\ err = "ok") =>
    \A h \in Live :
      [k |-> keyer(indices[4].keys, Seen(Tb, 4, h)), h |-> h]
        \in indices[4].list

\* the start key and the retained tests of a query on the index it uses
Plan(preds) ==
  Range(Selected(preds).keys, Equalities(preds), Ranges(preds))

\* the rows of the chosen index from the start key on, in index order
Candidates(preds) ==
  With(Plan(preds).start, LAMBDA start :
    Handles(find(Selected(preds),
                 IF Len(Selected(preds).keys) = 1
                 THEN (IF start # <<>> THEN At(<<start[1]>>) ELSE None)
                 ELSE At(start),
                 FALSE)))

\* a row fails a retained test
Fails(matches, h) ==
  \E i \in 1..Len(matches) : ~match(matches[i], obj[h])

\* the position of the first candidate that fails a retained test
Stop(cs, matches) ==
  IF \E j \in 1..Len(cs) : Fails(matches, cs[j])
  THEN CHOOSE j \in 1..Len(cs) :
         Fails(matches, cs[j]) /\ \A k \in 1..(j - 1) : ~Fails(matches, cs[k])
  ELSE Len(cs) + 1

Default(col) == IF col.kind \in {"Str", "StrBlob"} THEN Str(<<>>) ELSE PNone

\* C24: a newly created row has the declared default in every column other
\* than id, whatever came before, a destroy that freed its offset included.
C24_NewRowDefaults ==
  [][Len(created') > Len(created) =>
       /\ obj'[created'[Len(created')][1]].n = 0
       /\ obj'[created'[Len(created')][1]].val = Default(Payload(decl))]_vars

C26_IncrementalFrame ==
  [][(op' = "save" /\ disk # NoFile /\ ~full_dump_needed) =>
       /\ disk'.schema = disk.schema
       /\ \A h \in Live :
            (~obj[h].dirty /\ obj[h].off < Len(disk.recs)) =>
              /\ obj[h].off < Len(disk'.recs)
              /\ disk'.recs[obj[h].off + 1] = disk.recs[obj[h].off + 1]
       /\ \A i \in 1..Len(disk'.recs) :
            (i > Len(disk.recs) \/ disk'.recs[i] # disk.recs[i]) =>
              \E h \in Live : obj[h].dirty /\ obj[h].off = i - 1]_vars

\* the number of leading keys of an index that are equality keys
Lead(ks, keys) ==
  CHOOSE k \in 0..Len(ks) :
    /\ \A j \in 1..k : ks[j] \in keys
    /\ k < Len(ks) => ks[k + 1] \notin keys

\* the strength of index i for a call: its leading equality keys, and one
\* more when the key that follows them is a comparison key
Score(i) ==
  Lead(indices[i].keys, q.keys)
  + (IF /\ Lead(indices[i].keys, q.keys) < Len(indices[i].keys)
        /\ indices[i].keys[Lead(indices[i].keys, q.keys) + 1] \in q.cmpkeys
     THEN 1 ELSE 0)

\* C27: find_index returns an index of greatest strength, the first
\* declared of those, and the (id) index when no index has a usable key.
C27_FindIndex ==
  (op = "find_index") =>
    /\ \A j \in 1..Len(indices) : Score(j) <= Score(q.result)
    /\ \A j \in 1..(q.result - 1) : Score(j) < Score(q.result)
    /\ (\A j \in 1..Len(indices) : Score(j) = 0) =>
         indices[q.result].keys = <<"id">>

\* a call for which two declared indices have the same positive strength,
\* one of them through a comparison key
C27_Witness ==
  /\ op = "find_index"
  /\ q.cmpkeys # {}
  /\ Score(q.result) >= 1
  /\ \E j \in (q.result + 1)..Len(indices) :
       /\ Score(j) = Score(q.result)
       /\ Score(j) > Lead(indices[j].keys, q.keys)

\* the largest _offset of a live row, default when there is none
HighestOffset(default) ==
  IF rows = <<>> THEN default
  ELSE CHOOSE m \in {obj[h].off : h \in Live} :
         \A h \in Live : obj[h].off <= m

\* C28: Table.max('_offset', d) is the largest _offset of a live row, and d
\* when the table has no row, whatever indices and column names the table
\* declares.
C28_MaxOffset ==
  (connected /\ err = "ok") =>
    Table_max(Tb, "_offset", -1) = HighestOffset(-1)

\* C29: a connect that returns leaves db.tables as it was, the class made
\* by a migration not in it, and has called load once on every registered
\* table, in order, and then reindex once on every one.
C29_RegistryUnchanged ==
  [][(op' = "connect" /\ err' = "ok") =>
       /\ tables' = tables
       /\ calls' = [i \in 1..Len(tables) |-> <<"load", tables[i]>>]
                   \o [i \in 1..Len(tables) |-> <<"reindex", tables[i]>>]]_vars

\* a connect that migrated T, declared first, and another table after it
C29_Witness ==
  /\ op = "connect" /\ err = "ok" /\ migrated
  /\ Len(tables) >= 2 /\ tables[1].name = "T"
  /\ stale # {}

\* C30: when save() has returned, on the incremental path and on the full
\* rewrite path, every live row has _new = False.
C30_SavedRowsNotNew ==
  (op = "save" /\ err = "ok") => \A h \in Live : ~obj[h].new

\* C31: in database.py a column set that fails (a String(2) payload of more
\* than 2 bytes, an assignment to a virtual column) leaves the _dirty flag
\* of every row and the (_dirty, id) index as they were before the call.
C31_FailedSetKeepsDirty ==
  [][(op' = "assign" /\ err' \in {"ValueError", "NotImplementedError"}) =>
       /\ \A h \in Live : obj'[h].dirty = obj[h].dirty
       /\ indices'[3] = indices[3]]_vars

\* C32: within a session, once r.destroy() has returned no where() of at
\* most one comparison yields r (find() returns the first row that where()
\* yields), and a later call on the handle r (a column set, a second
\* destroy) puts r into no index and not into the row list, and changes the
\* _offset of no live row.
C32_DestroyedStaysGone ==
  /\ \A h \in DOMAIN held :
       \A preds \in {p \in Queries(decl) : Len(p) <= 1} :
         With(where(Tb, preds), LAMBDA hs :
           \A i \in 1..Len(hs) : hs[i] # h)
  /\ op \in {"set_gone", "destroy_gone"} =>
       /\ \A i \in 1..Len(indices) :
            (\E e \in indices[i].list : e.h = q.row)
              => \E e \in q.before.indices[i].list : e.h = q.row
       /\ (\E i \in 1..Len(rows) : rows[i] = q.row)
            => \E i \in 1..Len(q.before.rows) : q.before.rows[i] = q.row
       /\ \A h \in (Live \cap DOMAIN q.before.off) \ {q.row} :
            obj[h].off = q.before.off[h]

====
